---- MODULE Spec2Model ----
(***************************************************************************)
(* Model of the HomeMon dashboard's ChartManager (webui/js/charts.js) and  *)
(* of its moving-average smoother.                                         *)
(*                                                                         *)
(* Units.  Timestamps are JS Date values in milliseconds.  Measured values *)
(* are held in hundredths (2050 stands for 20.50), which is the precision  *)
(* toFixed(2) rounds to; a value h stands for the IEEE-754 double nearest  *)
(* to h / 100, and the sums and quotients of the code are computed as the  *)
(* doubles they are (see "Doubles" below).                                 *)
(***************************************************************************)
EXTENDS Integers, Sequences, FiniteSets, TLC

VARIABLES
    charts,            \* this.charts: sensorId -> Chart instance (or NoChart)
    originalData,      \* this.originalData: sensorId -> raw snapshot (or NoData)
    smoothingEnabled,  \* this.smoothingEnabled
    localStorage,      \* window.localStorage: datasetStates, smoothingEnabled
    lastOp,            \* history: the call that produced the current state
    orphaned,          \* sensorId -> a Chart made for it is alive but unregistered
    toggleChecked,     \* the metric switches of the page: metric -> checked
    appPhase,          \* App: "none" | "loading" | "containers" | "fetching" | "loaded"
    toggleEvents,      \* history: the value each switch was last set to by the
                       \* user, now (last) and when the page was loaded (atLoad)
    pending,           \* getMeasurements calls in flight: {[sensorId, request]}
    requested,         \* number of updateAllCharts calls made by this page
    applied,           \* history: sensorId -> request whose batch was applied last (0: none, or the load's)
    smData,            \* smoother harness: the caller's array passed as data
    smWindow,          \* smoother harness: the windowSize argument
    smResult,          \* smoother harness: the returned array
    smAgain,           \* smoother harness: the result of smoothing smResult
    smPc,              \* smoother harness: "ready" | "smoothed" | "resmoothed"
    tickValues,        \* tick harness: the values of the ticks of an x scale
    tickLabels         \* tick harness: the label the callback gave each tick

mgrVars == <<charts, originalData, smoothingEnabled, localStorage>>
smVars == <<smData, smWindow, smResult, smAgain, smPc, tickValues, tickLabels>>
netVars == <<pending, requested, applied>>
appVars == <<toggleChecked, appPhase, toggleEvents, pending, requested, applied>>
vars == <<charts, originalData, smoothingEnabled, localStorage, lastOp,
          orphaned, toggleChecked, appPhase, toggleEvents,
          pending, requested, applied,
          smData, smWindow, smResult, smAgain, smPc, tickValues, tickLabels>>

----------------------------------------------------------------------------
(* Bounds of the model.                                                    *)

MaxBatchLen == 5       \* longest measurement batch delivered to a chart
MaxLen == 5            \* longest series handed to the smoother harness
MaxWindow == 5         \* largest windowSize handed to the smoother harness
MaxRequests == 2       \* most updateAllCharts calls made by one page
MaxTicks == 7          \* most ticks of an x scale handed to the label callback

----------------------------------------------------------------------------
(* Program constants.                                                      *)

windowSize == 5
MsPerDay == 1000 * 60 * 60 * 24

Sensors == {"A", "B"}
Metrics == {"temperature", "humidity", "battery"}

NoChart == [exists |-> FALSE]
NoData == [cached |-> FALSE]
Unset == "undefined"

(* JSON.stringify / String of a boolean, as localStorage keeps it.         *)
stored(b) == IF b THEN "true" ELSE "false"

----------------------------------------------------------------------------
(* Arithmetic helpers.                                                     *)

Max(a, b) == IF a >= b THEN a ELSE b
Min(a, b) == IF a <= b THEN a ELSE b

(* Math.floor(a / b) for b > 0.                                            *)
FloorDiv(a, b) == a \div b

----------------------------------------------------------------------------
(* Doubles.  A double close to the decimal h / 100 is the record           *)
(* [h |-> h, e |-> e]: its value is h / 100 + e * U, where the unit U is   *)
(* 2^-60 / 100.  Doubles of magnitude 2^j .. 2^(j+1) are the multiples of  *)
(* 2^(j-52), i.e. of 100 * 2^(8+j) units; the arithmetic below rounds to   *)
(* the nearest of them, ties to the even one, as IEEE-754 does.            *)

RECURSIVE Pow2(_)
Pow2(n) == IF n = 0 THEN 1 ELSE 2 * Pow2(n - 1)

(* 2^n modulo m                                                            *)
RECURSIVE Pow2Mod(_, _)
Pow2Mod(n, m) == IF n = 0 THEN 1 % m ELSE (2 * Pow2Mod(n - 1, m)) % m

(* 2^k <= num / den + e units, for num > 0 and an e far below a hundredth  *)
reaches(num, den, e, k) ==
    LET l == IF k >= 0 THEN den * Pow2(k) ELSE den
        r == IF k >= 0 THEN num ELSE num * Pow2(-k)
    IN l < r \/ (l = r /\ e >= 0)

(* the j with 2^j <= num / den + e units < 2^(j+1), searched from j up;    *)
(* the smallest magnitude met is half a hundredth, above 2^-8              *)
RECURSIVE binade(_, _, _, _)
binade(num, den, e, j) ==
    IF reaches(num, den, e, j + 1) THEN binade(num, den, e, j + 1) ELSE j

(* The double nearest to x = num / (100 * c) + (e / c) units, num > 0,     *)
(* given as the e2 for which that double is num / (100 * c) + (e2 / c)     *)
(* units.  All of it is computed on c * x, whose doubles are c * g apart   *)
(* for the spacing g = 100 * 2^(8+j) of x; the huge term num * 2^60 enters *)
(* only through its remainder.  A multiple of 1/64 is a double as it is.  *)
nearest(num, c, e) ==
    IF e = 0 /\ (64 * num) % (100 * c) = 0 THEN 0 ELSE
    LET s == 8 + binade(num, 100 * c, e, -9)
        cg == 100 * c * Pow2(s)
        base == Pow2(s) * (((num % (100 * c)) * Pow2Mod(60 - s, 100 * c)) % (100 * c))
        r == (base + e) % cg
        down == e - r
        z == down \div Pow2(s)
        even == ((num % (200 * c)) * Pow2Mod(60 - s, 200 * c) + z) % (200 * c) = 0
    IN IF 2 * r < cg THEN down
       ELSE IF 2 * r > cg THEN down + cg
       ELSE IF even THEN down ELSE down + cg

(* The double nearest to h / 100 + e units; a difference that cancels to   *)
(* h = 0 is exact.                                                         *)
round(h, e) ==
    IF h = 0 THEN [h |-> 0, e |-> e]
    ELSE IF h > 0 THEN [h |-> h, e |-> nearest(h, 1, e)]
    ELSE [h |-> h, e |-> -nearest(-h, 1, -e)]

(* The number a JSON or toFixed literal with two decimals denotes.         *)
Number(h) == round(h, 0)

(* acc + curr.y                                                            *)
plus(acc, y) == round(acc.h + y.h, acc.e + y.e)

(* The sum of the first n values of the window as decimals.               *)
RECURSIVE SumY(_, _)
SumY(window, n) == IF n = 0 THEN 0 ELSE window[n].y + SumY(window, n - 1)

(* The accumulator after the first n values of the window.                 *)
RECURSIVE reduceTo(_, _)
reduceTo(window, n) ==
    IF n = 0 THEN Number(0)
    ELSE plus(reduceTo(window, n - 1), Number(window[n].y))

(* window.reduce((acc, curr) => acc + curr.y, 0).  Multiples of 0.25 are   *)
(* doubles and so is every sum of them: no addition rounds.                *)
reduce(window) ==
    IF \A i \in 1..Len(window) : window[i].y % 25 = 0
    THEN [h |-> SumY(window, Len(window)), e |-> 0]
    ELSE reduceTo(window, Len(window))

(* Number((sum / count).toFixed(2)) in hundredths.  toFixed takes the      *)
(* hundredth nearest to the exact value of the double sum / count, the     *)
(* larger one when two are equally near, and treats a negative x as        *)
(* -(-x).toFixed.  The quotient of the doubles is within 2^-40 of the      *)
(* quotient of the decimals, so only when the decimals' quotient lies      *)
(* half-way between two hundredths does the double decide: it is the       *)
(* double nearest to sum / count, below, on or above the half-way point.   *)
toFixed2(sum, count) ==
    LET h == IF sum.h >= 0 THEN sum.h ELSE -sum.h
        e == IF sum.h >= 0 THEN sum.e ELSE -sum.e
        n == IF (2 * h) % (2 * count) # count
             THEN (2 * h + count) \div (2 * count)
             ELSE IF nearest(h, count, e) >= 0
                  THEN h \div count + 1
                  ELSE h \div count
    IN IF sum.h >= 0 THEN n ELSE -n

(* data.slice(start, end) with 0-based, end-exclusive indices.             *)
slice(data, start, end) == SubSeq(data, start + 1, end)

----------------------------------------------------------------------------
(* The smoother.                                                           *)

(* Variants of the smoother with one slip each.                            *)

(* divides by windowSize instead of window.length                          *)
calculateMovingAverage_DivByWindowSize(data, w) ==
    IF Len(data) = 0 THEN <<>>
    ELSE IF Len(data) < w THEN data
    ELSE [i \in 1..Len(data) |->
            LET start == Max(0, (i - 1) - FloorDiv(w, 2))
                window == slice(data, start, Min(Len(data), start + w))
            IN [x |-> data[i].x, y |-> toFixed2(reduce(window), w)]]

(* lacks the early return for data.length < windowSize                     *)
calculateMovingAverage_NoShortReturn(data, w) ==
    IF Len(data) = 0 THEN <<>>
    ELSE [i \in 1..Len(data) |->
            LET start == Max(0, (i - 1) - FloorDiv(w, 2))
                window == slice(data, start, Min(Len(data), start + w))
            IN [x |-> data[i].x, y |-> toFixed2(reduce(window), Len(window))]]

(* stamps each output point with the time of the first point of its window *)
calculateMovingAverage_WindowStartTime(data, w) ==
    IF Len(data) = 0 THEN <<>>
    ELSE IF Len(data) < w THEN data
    ELSE [i \in 1..Len(data) |->
            LET start == Max(0, (i - 1) - FloorDiv(w, 2))
                window == slice(data, start, Min(Len(data), start + w))
            IN [x |-> window[1].x, y |-> toFixed2(reduce(window), Len(window))]]

(* starts every window one point too early                                 *)
calculateMovingAverage_OffByOneStart(data, w) ==
    IF Len(data) = 0 THEN <<>>
    ELSE IF Len(data) < w THEN data
    ELSE [i \in 1..Len(data) |->
            LET start == Max(0, (i - 1) - FloorDiv(w, 2) - 1)
                window == slice(data, start, Min(Len(data), start + w))
            IN [x |-> data[i].x, y |-> toFixed2(reduce(window), Len(window))]]

calculateMovingAverage(data, w) ==
    IF Len(data) = 0 THEN <<>>
    ELSE IF Len(data) < w THEN data
    ELSE [i \in 1..Len(data) |->
            LET index == i - 1
                start == Max(0, index - FloorDiv(w, 2))
                end == Min(Len(data), start + w)
                window == slice(data, start, end)
            IN [x |-> data[i].x, y |-> toFixed2(reduce(window), Len(window))]]

(* A smoother that writes each average back into its input point.          *)
dataAfterCall_InPlace(data, w) ==
    IF Len(data) < w THEN data
    ELSE [i \in 1..Len(data) |->
            LET start == Max(0, (i - 1) - FloorDiv(w, 2))
                window == slice(data, start, Min(Len(data), start + w))
            IN [x |-> data[i].x, y |-> toFixed2(reduce(window), Len(window))]]

(* What the array passed as data holds after the call: map, slice and      *)
(* reduce only read it, and every output point is a new object.            *)
dataAfterCall(data, w) == data

----------------------------------------------------------------------------
(* Measurements and their conversion into chart points.                    *)

(* An ISO-8601 timestamp, as its day number and time of day (UTC).         *)
IsoTime(sec) ==
    [day |-> sec \div 86400, hour |-> (sec % 86400) \div 3600,
     minute |-> (sec % 3600) \div 60, second |-> sec % 60]

(* DateTime.fromISO(ts).toJSDate(): the instant in epoch milliseconds.     *)
fromISO(ts) ==
    (((ts.day * 24 + ts.hour) * 60 + ts.minute) * 60 + ts.second) * 1000

(* Array.prototype.sort with sortByX = (a, b) => a.x - b.x: ascending by   *)
(* x and stable (equal x keep their order of arrival).                     *)
RECURSIVE insertByX(_, _)
insertByX(sorted, p) ==
    IF sorted = <<>> THEN <<p>>
    ELSE IF p.x - Head(sorted).x < 0 THEN <<p>> \o sorted
    ELSE <<Head(sorted)>> \o insertByX(Tail(sorted), p)

(* The arrays left in the order of arrival.                                *)
sortByX_AsDelivered(s) == s

RECURSIVE sortByX(_)
sortByX(s) ==
    IF s = <<>> THEN <<>>
    ELSE insertByX(sortByX(SubSeq(s, 1, Len(s) - 1)), s[Len(s)])

(* The three arrays updateChartData builds from a batch, sorted.           *)
pointsOf(measurements, field) ==
    sortByX([i \in 1..Len(measurements) |->
        [x |-> fromISO(measurements[i].timestamp), y |-> measurements[i][field]]])

temperatureData(measurements) == pointsOf(measurements, "temperature")
humidityData(measurements) == pointsOf(measurements, "humidity")
batteryData(measurements) == pointsOf(measurements, "battery_voltage")

snapshotOf(measurements) ==
    [cached |-> TRUE,
     temperature |-> temperatureData(measurements),
     humidity |-> humidityData(measurements),
     battery |-> batteryData(measurements)]

(* The view put on the chart: smoothed when the flag is set, else raw.     *)
finalData(series, enabled) ==
    IF enabled THEN calculateMovingAverage(series, windowSize) ELSE series

----------------------------------------------------------------------------
(* Time-axis configuration.                                                *)

(* CONFIG.CHART_OPTIONS.scales.x: no time or ticks options, so Chart.js    *)
(* picks the unit and auto-skips.                                          *)
DefaultXAxis ==
    [mode |-> "default", unit |-> "auto", stepSize |-> 0, autoSkip |-> TRUE,
     callback |-> FALSE]
(* stepSize 0 stands for no stepSize option.                               *)
MultiDayXAxis ==
    [mode |-> "multi-day", unit |-> "hour", stepSize |-> 4, autoSkip |-> FALSE,
     callback |-> TRUE]
SingleDayXAxis ==
    [mode |-> "single-day", unit |-> "hour", stepSize |-> 0, autoSkip |-> TRUE,
     callback |-> FALSE]

(* Calendar fields of a Date value.  Values are counted from 00:00 of 20   *)
(* January, local time, so that a month ends within the range of values.   *)
MsPerHour == 1000 * 60 * 60
DaysInMonth == <<31, 28, 31, 30, 31, 30, 31, 31, 30, 31, 30, 31>>
DayOfYearAtZero == 19

getHours(value) == (value \div MsPerHour) % 24
getMinutes(value) == (value \div (1000 * 60)) % 60

RECURSIVE monthAndDay(_, _)
monthAndDay(month, dayOfYear) ==
    IF dayOfYear < DaysInMonth[month] THEN <<month, dayOfYear + 1>>
    ELSE monthAndDay(month + 1, dayOfYear - DaysInMonth[month])

(* Date.prototype.getDate: the day of the month, 1 to 31.                  *)
getDate(value) == monthAndDay(1, DayOfYearAtZero + value \div MsPerDay)[2]

(* DateTime.fromJSDate(date).toFormat('HH:mm') and toFormat('MMM d').      *)
toFormatHHmm(value) == <<getHours(value), getMinutes(value)>>
toFormatMMMd(value) == monthAndDay(1, DayOfYearAtZero + value \div MsPerDay)

(* What the callback returns: an array of two lines, one string, or ''.    *)
TwoLines(time, date) == [time |-> time, date |-> date]
OneLine(time) == [time |-> time, date |-> <<>>]
NoLabel == [time |-> <<>>, date |-> <<>>]

(* The callback treating the first tick as any other.                      *)
callback_NoFirstTick(value, index, ticks) ==
    LET hour == getHours(value)
        prevTick == IF index > 0 THEN ticks[index] ELSE value
    IN IF getDate(prevTick) # getDate(value)
       THEN TwoLines(toFormatHHmm(value), toFormatMMMd(value))
       ELSE IF hour % 4 = 0 THEN OneLine(toFormatHHmm(value))
       ELSE NoLabel

(* scales.x.ticks.callback of the multi-day view; index counts from 0 and  *)
(* ticks[index - 1] of the code is the index-th element of the sequence.   *)
callback(value, index, ticks) ==
    LET hour == getHours(value)
    IN IF index = 0 \/ getDate(ticks[index]) # getDate(value)
       THEN TwoLines(toFormatHHmm(value), toFormatMMMd(value))
       ELSE IF hour % 4 = 0 THEN OneLine(toFormatHHmm(value))
       ELSE NoLabel

(* Math.round in place of Math.floor                                       *)
daysDiff_Round(firstDate, lastDate) ==
    FloorDiv(2 * (lastDate - firstDate) + MsPerDay, 2 * MsPerDay)

daysDiff(firstDate, lastDate) == FloorDiv(lastDate - firstDate, MsPerDay)

(* The x scale after updateChartData: firstDate and lastDate are undefined *)
(* for an empty series and the scale is then left as it was.               *)
xAxisAfterUpdate(current, finalTempData) ==
    IF Len(finalTempData) = 0 THEN current
    ELSE IF daysDiff(finalTempData[1].x, finalTempData[Len(finalTempData)].x) > 0
         THEN MultiDayXAxis
         ELSE SingleDayXAxis

(* CONFIG.CHART_OPTIONS.elements.point                                     *)
DefaultPoint == [radius |-> 0, hitRadius |-> 8, hoverRadius |-> 4, borderWidth |-> 0]

(* the radius test inverted                                                *)
pointAfterUpdate_Inverted(measurements) ==
    [radius |-> IF Len(measurements) = 1 THEN 0 ELSE 4,
     hitRadius |-> 8, hoverRadius |-> 4, borderWidth |-> 2]

(* chart.options.elements.point after updateChartData.                     *)
pointAfterUpdate(measurements) ==
    [radius |-> IF Len(measurements) = 1 THEN 4 ELSE 0,
     hitRadius |-> 8, hoverRadius |-> 4, borderWidth |-> 2]

----------------------------------------------------------------------------
(* Persisted state and chart construction.                                 *)

(* CONFIG.DATASET_STYLES[m].hidden                                         *)
DATASET_STYLES_hidden(m) == FALSE

(* The hidden flag of a dataset literal                                    *)
(*   { label, data, hidden: <from saved state>, ...CONFIG.DATASET_STYLES } *)
(* The spread comes last, so its own hidden property replaces the one      *)
(* computed from the saved state.                                          *)
datasetHidden(sensorStates, m) ==
    LET fromSaved == IF sensorStates[m] = Unset THEN FALSE
                     ELSE ~(sensorStates[m] = "true")
        literal == [hidden |-> fromSaved]
        spread == [literal EXCEPT !.hidden = DATASET_STYLES_hidden(m)]
    IN spread.hidden

newChart(sensorStates) ==
    [exists |-> TRUE,
     data |-> [m \in Metrics |-> <<>>],
     hidden |-> [m \in Metrics |-> datasetHidden(sensorStates, m)],
     display |-> [m \in Metrics |-> ~datasetHidden(sensorStates, m)],
     xAxis |-> DefaultXAxis,
     point |-> DefaultPoint]

hasChart(s) == charts[s].exists
hasData(s) == originalData[s].cached

(* The record of a call.  No operation of ChartManager or App throws: each *)
(* returns normally, which threw |-> "none" records.                       *)
Op(name, s, ms, type, flag) ==
    [op |-> name, sensorId |-> s, measurements |-> ms, type |-> type, flag |-> flag,
     threw |-> "none"]

----------------------------------------------------------------------------
(* Initial state: a freshly constructed ChartManager over empty storage.   *)

InitManager ==
    /\ charts = [s \in Sensors |-> NoChart]
    /\ originalData = [s \in Sensors |-> NoData]
    /\ smoothingEnabled = FALSE
    /\ localStorage = [datasetStates |-> [s \in Sensors |-> [m \in Metrics |-> Unset]],
                       toggleStates |-> [m \in Metrics |-> Unset],
                       smoothingEnabled |-> Unset]
    /\ lastOp = Op("constructor", "none", <<>>, "none", FALSE)
    /\ orphaned = [s \in Sensors |-> FALSE]

(* No switch was operated yet and no request was made.                     *)
InitIdlePage ==
    /\ toggleEvents = [last |-> [m \in Metrics |-> Unset],
                       atLoad |-> [m \in Metrics |-> Unset]]
    /\ pending = {}
    /\ requested = 0
    /\ applied = [s \in Sensors |-> 0]

(* index.html: the three metric switches are checked; no App is running.   *)
InitNoApp ==
    /\ toggleChecked = [m \in Metrics |-> TRUE]
    /\ appPhase = "none"
    /\ InitIdlePage

InitIdleTicks ==
    /\ tickValues = <<>>
    /\ tickLabels = <<>>

InitIdleSmoother ==
    /\ smData = <<>>
    /\ smWindow = windowSize
    /\ smResult = <<>>
    /\ smAgain = <<>>
    /\ smPc = "idle"
    /\ InitIdleTicks

----------------------------------------------------------------------------
(* ChartManager operations.                                                *)

createChart(sensorId) ==
    /\ charts' = [charts EXCEPT ![sensorId] =
                     newChart(localStorage.datasetStates[sensorId])]
    /\ orphaned' = [orphaned EXCEPT ![sensorId] = @ \/ hasChart(sensorId)]
    /\ lastOp' = Op("createChart", sensorId, <<>>, "none", FALSE)
    /\ UNCHANGED <<originalData, smoothingEnabled, localStorage>>
    /\ UNCHANGED <<smVars, appVars>>

(* updateChartData leaving the battery dataset as it finds it.             *)
chartAfterUpdate_KeepsBattery(chart, measurements, enabled) ==
    LET finalTempData == finalData(temperatureData(measurements), enabled)
        finalHumidityData == finalData(humidityData(measurements), enabled)
    IN [chart EXCEPT
           !.data = [temperature |-> finalTempData,
                     humidity |-> finalHumidityData,
                     battery |-> chart.data["battery"]],
           !.point = pointAfterUpdate(measurements),
           !.xAxis = xAxisAfterUpdate(chart.xAxis, finalTempData)]

chartAfterUpdate(chart, measurements, enabled) ==
    LET finalTempData == finalData(temperatureData(measurements), enabled)
        finalHumidityData == finalData(humidityData(measurements), enabled)
        finalBatteryData == finalData(batteryData(measurements), enabled)
    IN [chart EXCEPT
           !.data = [temperature |-> finalTempData,
                     humidity |-> finalHumidityData,
                     battery |-> finalBatteryData],
           !.point = pointAfterUpdate(measurements),
           !.xAxis = xAxisAfterUpdate(chart.xAxis, finalTempData)]

(* updateChartData merging the batch into the snapshot it finds.           *)
updateChartData_Merges(sensorId, measurements) ==
    LET new == snapshotOf(measurements)
        old == originalData[sensorId]
        merged == IF old.cached
                  THEN [cached |-> TRUE,
                        temperature |-> sortByX(old.temperature \o new.temperature),
                        humidity |-> sortByX(old.humidity \o new.humidity),
                        battery |-> sortByX(old.battery \o new.battery)]
                  ELSE new
    IN /\ IF ~hasChart(sensorId)
          THEN UNCHANGED <<charts, originalData>>
          ELSE /\ originalData' = [originalData EXCEPT ![sensorId] = merged]
               /\ charts' = [charts EXCEPT ![sensorId] =
                                chartAfterUpdate(charts[sensorId], measurements,
                                                 smoothingEnabled)]
       /\ lastOp' = Op("updateChartData", sensorId, measurements, "none", FALSE)
       /\ UNCHANGED <<smoothingEnabled, localStorage, orphaned>>
       /\ UNCHANGED <<smVars, appVars>>

updateChartData(sensorId, measurements) ==
    /\ IF ~hasChart(sensorId)
       THEN UNCHANGED <<charts, originalData>>
       ELSE /\ originalData' = [originalData EXCEPT ![sensorId] =
                                   snapshotOf(measurements)]
            /\ charts' = [charts EXCEPT ![sensorId] =
                             chartAfterUpdate(charts[sensorId], measurements,
                                              smoothingEnabled)]
    /\ lastOp' = Op("updateChartData", sensorId, measurements, "none", FALSE)
    /\ UNCHANGED <<smoothingEnabled, localStorage, orphaned>>
    /\ UNCHANGED <<smVars, appVars>>

(* toggleDataset without the axis line: only the dataset's flag is set.    *)
chartsAfterToggle_DatasetOnly(registry, type, visible) ==
    [s \in Sensors |->
        IF registry[s].exists
        THEN [registry[s] EXCEPT !.hidden[type] = ~visible]
        ELSE registry[s]]

(* toggleDataset flipping the flags instead of setting them.               *)
chartsAfterToggle_Flip(registry, type, visible) ==
    [s \in Sensors |->
        IF registry[s].exists
        THEN [registry[s] EXCEPT !.hidden[type] = ~@, !.display[type] = ~@]
        ELSE registry[s]]

(* toggleDataset putting the default x scale back as well.                 *)
chartsAfterToggle_ResetsAxis(registry, type, visible) ==
    [s \in Sensors |->
        IF registry[s].exists
        THEN [registry[s] EXCEPT !.hidden[type] = ~visible, !.display[type] = visible,
                                 !.xAxis = DefaultXAxis]
        ELSE registry[s]]

(* The registry after toggleDataset: every chart gets the dataset's hidden *)
(* flag and the display flag of its axis set.                              *)
chartsAfterToggle(registry, type, visible) ==
    [s \in Sensors |->
        IF registry[s].exists
        THEN [registry[s] EXCEPT !.hidden[type] = ~visible,
                                 !.display[type] = visible]
        ELSE registry[s]]

(* toggleDataset saving the state of the first chart only.                 *)
statesAfterToggle_FirstOnly(datasetStates, registry, type, visible) ==
    [s \in Sensors |->
        IF registry[s].exists /\ s = CHOOSE t \in Sensors : registry[t].exists
        THEN [datasetStates[s] EXCEPT ![type] = stored(visible)]
        ELSE datasetStates[s]]

(* localStorage.datasetStates after toggleDataset: the value is saved for  *)
(* every sensor that has a chart.                                          *)
statesAfterToggle(datasetStates, registry, type, visible) ==
    [s \in Sensors |->
        IF registry[s].exists
        THEN [datasetStates[s] EXCEPT ![type] = stored(visible)]
        ELSE datasetStates[s]]

toggleDataset(type, visible) ==
    /\ charts' = chartsAfterToggle(charts, type, visible)
    /\ localStorage' = [localStorage EXCEPT !.datasetStates =
                          statesAfterToggle(@, charts, type, visible)]
    /\ lastOp' = Op("toggleDataset", "none", <<>>, type, visible)
    /\ UNCHANGED <<originalData, smoothingEnabled, orphaned>>
    /\ UNCHANGED <<smVars, appVars>>

chartAfterSmoothing(chart, snapshot, enabled) ==
    [chart EXCEPT !.data =
        [temperature |-> finalData(snapshot.temperature, enabled),
         humidity |-> finalData(snapshot.humidity, enabled),
         battery |-> finalData(snapshot.battery, enabled)]]

(* toggleSmoothing keeping the view it displays as the cached snapshot     *)
toggleSmoothing_CachesView(enabled) ==
    /\ smoothingEnabled' = enabled
    /\ localStorage' = [localStorage EXCEPT !.smoothingEnabled = stored(enabled)]
    /\ charts' = [s \in Sensors |->
                    IF hasChart(s) /\ hasData(s)
                    THEN chartAfterSmoothing(charts[s], originalData[s], enabled)
                    ELSE charts[s]]
    /\ originalData' = [s \in Sensors |->
                    IF hasChart(s) /\ hasData(s)
                    THEN [originalData[s] EXCEPT
                            !.temperature = finalData(@, enabled),
                            !.humidity = finalData(@, enabled),
                            !.battery = finalData(@, enabled)]
                    ELSE originalData[s]]
    /\ lastOp' = Op("toggleSmoothing", "none", <<>>, "none", enabled)
    /\ UNCHANGED <<smVars, appVars, orphaned>>

(* toggleSmoothing giving every chart without a snapshot an empty one.     *)
toggleSmoothing_CachesEmpty(enabled) ==
    /\ smoothingEnabled' = enabled
    /\ localStorage' = [localStorage EXCEPT !.smoothingEnabled = stored(enabled)]
    /\ charts' = [s \in Sensors |->
                    IF hasChart(s) /\ hasData(s)
                    THEN chartAfterSmoothing(charts[s], originalData[s], enabled)
                    ELSE charts[s]]
    /\ originalData' = [s \in Sensors |->
                    IF hasChart(s) /\ ~hasData(s)
                    THEN snapshotOf(<<>>)
                    ELSE originalData[s]]
    /\ lastOp' = Op("toggleSmoothing", "none", <<>>, "none", enabled)
    /\ UNCHANGED orphaned
    /\ UNCHANGED <<smVars, appVars>>

toggleSmoothing(enabled) ==
    /\ smoothingEnabled' = enabled
    /\ localStorage' = [localStorage EXCEPT !.smoothingEnabled = stored(enabled)]
    /\ charts' = [s \in Sensors |->
                    IF hasChart(s) /\ hasData(s)
                    THEN chartAfterSmoothing(charts[s], originalData[s], enabled)
                    ELSE charts[s]]
    /\ lastOp' = Op("toggleSmoothing", "none", <<>>, "none", enabled)
    /\ UNCHANGED <<originalData, orphaned>>
    /\ UNCHANGED <<smVars, appVars>>

(* destroyChart releasing the chart without deleting the registry entry.   *)
destroyChart_KeepsRegistry(sensorId) ==
    /\ IF hasChart(sensorId)
       THEN /\ originalData' = [originalData EXCEPT ![sensorId] = NoData]
            /\ UNCHANGED charts
       ELSE UNCHANGED <<charts, originalData>>
    /\ lastOp' = Op("destroyChart", sensorId, <<>>, "none", FALSE)
    /\ UNCHANGED <<smoothingEnabled, localStorage, orphaned>>
    /\ UNCHANGED <<smVars, appVars>>

(* destroyChart without the eviction of the cached snapshot.               *)
destroyChart_KeepsCache(sensorId) ==
    /\ IF hasChart(sensorId)
       THEN /\ charts' = [charts EXCEPT ![sensorId] = NoChart]
            /\ UNCHANGED originalData
       ELSE UNCHANGED <<charts, originalData>>
    /\ lastOp' = Op("destroyChart", sensorId, <<>>, "none", FALSE)
    /\ UNCHANGED <<smoothingEnabled, localStorage, orphaned>>
    /\ UNCHANGED <<smVars, appVars>>

(* destroyChart clearing the whole cache instead of deleting one entry.    *)
destroyChart_ClearsCache(sensorId) ==
    /\ IF hasChart(sensorId)
       THEN /\ charts' = [charts EXCEPT ![sensorId] = NoChart]
            /\ originalData' = [s \in Sensors |-> NoData]
       ELSE UNCHANGED <<charts, originalData>>
    /\ lastOp' = Op("destroyChart", sensorId, <<>>, "none", FALSE)
    /\ UNCHANGED <<smoothingEnabled, localStorage, orphaned>>
    /\ UNCHANGED <<smVars, appVars>>

destroyChart(sensorId) ==
    /\ IF hasChart(sensorId)
       THEN /\ charts' = [charts EXCEPT ![sensorId] = NoChart]
            /\ originalData' = [originalData EXCEPT ![sensorId] = NoData]
       ELSE UNCHANGED <<charts, originalData>>
    /\ lastOp' = Op("destroyChart", sensorId, <<>>, "none", FALSE)
    /\ UNCHANGED <<smoothingEnabled, localStorage, orphaned>>
    /\ UNCHANGED <<smVars, appVars>>

(* destroyAllCharts without clearing the cache.                            *)
destroyAllCharts_KeepsCache ==
    /\ charts' = [s \in Sensors |-> NoChart]
    /\ lastOp' = Op("destroyAllCharts", "none", <<>>, "none", FALSE)
    /\ UNCHANGED <<originalData, smoothingEnabled, localStorage, orphaned>>
    /\ UNCHANGED <<smVars, appVars>>

destroyAllCharts ==
    /\ charts' = [s \in Sensors |-> NoChart]
    /\ originalData' = [s \in Sensors |-> NoData]
    /\ lastOp' = Op("destroyAllCharts", "none", <<>>, "none", FALSE)
    /\ UNCHANGED <<smoothingEnabled, localStorage, orphaned>>
    /\ UNCHANGED <<smVars, appVars>>

(* resizeChart rebuilding the chart's point options from the defaults.     *)
resizeChart_ResetsPoint(sensorId) ==
    /\ charts' = [charts EXCEPT ![sensorId] =
                     IF hasChart(sensorId) THEN [@ EXCEPT !.point = DefaultPoint] ELSE @]
    /\ lastOp' = Op("resizeChart", sensorId, <<>>, "none", FALSE)
    /\ UNCHANGED <<originalData, smoothingEnabled, localStorage, orphaned>>
    /\ UNCHANGED <<smVars, appVars>>

(* chart.resize() changes the rendering size only, which is not modelled.  *)
resizeChart(sensorId) ==
    /\ lastOp' = Op("resizeChart", sensorId, <<>>, "none", FALSE)
    /\ UNCHANGED <<mgrVars, orphaned>>
    /\ UNCHANGED <<smVars, appVars>>

resizeAllCharts ==
    /\ lastOp' = Op("resizeAllCharts", "none", <<>>, "none", FALSE)
    /\ UNCHANGED <<mgrVars, orphaned>>
    /\ UNCHANGED <<smVars, appVars>>

(* A restart: the page is loaded again and charts.js constructs a new     *)
(* ChartManager.  The constructor sets its fields from literals and reads  *)
(* nothing from localStorage, which is what the previous page left.        *)
restart ==
    /\ charts' = [s \in Sensors |-> NoChart]
    /\ originalData' = [s \in Sensors |-> NoData]
    /\ smoothingEnabled' = FALSE
    /\ orphaned' = [s \in Sensors |-> FALSE]
    /\ lastOp' = Op("constructor", "none", <<>>, "none", FALSE)
    /\ UNCHANGED localStorage
    /\ UNCHANGED <<smVars, appVars>>

----------------------------------------------------------------------------
(* App: the page controller.                                               *)

(* A (re)load of the page: a new ChartManager and a new App over the       *)
(* storage the previous page left; the switches are checked as index.html  *)
(* declares them, and loadData is awaiting the sensor list.                *)
pageLoad ==
    /\ appPhase # "none"
    /\ charts' = [s \in Sensors |-> NoChart]
    /\ originalData' = [s \in Sensors |-> NoData]
    /\ smoothingEnabled' = FALSE
    /\ orphaned' = [s \in Sensors |-> FALSE]
    /\ toggleChecked' = [m \in Metrics |-> TRUE]
    /\ appPhase' = "loading"
    /\ toggleEvents' = [toggleEvents EXCEPT !.atLoad = toggleEvents.last]
    /\ pending' = {}
    /\ requested' = 0
    /\ applied' = [s \in Sensors |-> 0]
    /\ lastOp' = Op("pageLoad", "none", <<>>, "none", FALSE)
    /\ UNCHANGED localStorage
    /\ UNCHANGED smVars

(* createSensorContainers: one createChart per sensor of the list that     *)
(* getSensors returned.                                                    *)
createSensorContainers(sensors) ==
    /\ appPhase = "loading"
    /\ charts' = [s \in Sensors |->
                    IF s \in sensors
                    THEN newChart(localStorage.datasetStates[s])
                    ELSE charts[s]]
    /\ orphaned' = [s \in Sensors |-> orphaned[s] \/ (s \in sensors /\ hasChart(s))]
    /\ appPhase' = "containers"
    /\ lastOp' = Op("createSensorContainers", "none", <<>>, "none", FALSE)
    /\ UNCHANGED <<originalData, smoothingEnabled, localStorage, toggleChecked>>
    /\ UNCHANGED <<toggleEvents, netVars>>
    /\ UNCHANGED smVars

(* The request number of the tasks of loadData; those of the calls of      *)
(* updateAllCharts are numbered from 1.                                    *)
LoadRequest == 0

(* The tasks of the load still awaiting getMeasurements.                   *)
loadPending == {p \in pending : p.request = LoadRequest}

(* loadData once getRecentMeasurements has resolved with measurements:     *)
(* one getMeasurements call per sensor, each awaited in a task of its own, *)
(* and loadData awaits Promise.all of the tasks.                           *)
loadDataFetch ==
    /\ appPhase = "containers"
    /\ appPhase' = "fetching"
    /\ pending' = pending \cup
          {[sensorId |-> s, request |-> LoadRequest] :
              s \in {t \in Sensors : hasChart(t)}}
    /\ lastOp' = Op("loadDataFetch", "none", <<>>, "none", FALSE)
    /\ UNCHANGED <<mgrVars, orphaned, smVars>>
    /\ UNCHANGED <<toggleChecked, toggleEvents, requested, applied>>

(* toggleStates.m !== undefined ? toggleStates.m : true                    *)
savedToggle(toggleStates, m) ==
    IF toggleStates[m] # Unset THEN toggleStates[m] = "true" ELSE TRUE

(* loadSavedStates on the registry cs: the switches take the saved toggle   *)
(* states and toggleDataset is called for temperature, humidity and        *)
(* battery in turn.                                                        *)
loadSavedStates(cs) ==
    LET checked == [m \in Metrics |-> savedToggle(localStorage.toggleStates, m)]
        c1 == chartsAfterToggle(cs, "temperature", checked["temperature"])
        c2 == chartsAfterToggle(c1, "humidity", checked["humidity"])
        c3 == chartsAfterToggle(c2, "battery", checked["battery"])
        d1 == statesAfterToggle(localStorage.datasetStates, cs,
                                "temperature", checked["temperature"])
        d2 == statesAfterToggle(d1, c1, "humidity", checked["humidity"])
        d3 == statesAfterToggle(d2, c2, "battery", checked["battery"])
    IN /\ toggleChecked' = checked
       /\ charts' = c3
       /\ localStorage' = [localStorage EXCEPT !.datasetStates = d3]

(* The task of req is the last of the load to end: Promise.all of the      *)
(* load's tasks resolves in the turn in which this task ends.              *)
joinEnds(req) ==
    /\ appPhase = "fetching"
    /\ req.request = LoadRequest
    /\ loadPending = {req}

(* The rest of the turn in which the task of req ends, having left the     *)
(* registry as cs: when the join of the load ends with it, loadData goes   *)
(* on to loadSavedStates in the same turn.                                 *)
taskEnds(req, cs) ==
    IF joinEnds(req)
    THEN /\ \E registry \in {cs} : loadSavedStates(registry)
         /\ appPhase' = "loaded"
    ELSE /\ charts' = cs
         /\ UNCHANGED <<toggleChecked, localStorage, appPhase>>

(* saveToggleStates: the checked state of the three switches.              *)
toggleStatesSaved(checked) == [m \in Metrics |-> stored(checked[m])]

(* The change listener of a switch: the user flips it, toggleDataset is    *)
(* called with its new state and saveToggleStates stores all three.        *)
toggleChange(m) ==
    LET checked == [toggleChecked EXCEPT ![m] = ~@]
    IN /\ appPhase # "none"
       /\ toggleChecked' = checked
       /\ charts' = chartsAfterToggle(charts, m, checked[m])
       /\ localStorage' = [localStorage EXCEPT
             !.datasetStates = statesAfterToggle(@, charts, m, checked[m]),
             !.toggleStates = toggleStatesSaved(checked)]
       /\ lastOp' = Op("toggleChange", "none", <<>>, m, checked[m])
       /\ toggleEvents' = [toggleEvents EXCEPT !.last[m] = stored(checked[m])]
       /\ UNCHANGED <<originalData, smoothingEnabled, orphaned, appPhase>>
       /\ UNCHANGED netVars
       /\ UNCHANGED smVars

(* updateAllCharts: one getMeasurements call per sensor of this.sensors,   *)
(* which are the sensors createSensorContainers made charts for; each call *)
(* is awaited in a task of its own.                                        *)
updateAllCharts ==
    /\ appPhase # "none"
    /\ requested < MaxRequests
    /\ requested' = requested + 1
    /\ pending' = pending \cup
          {[sensorId |-> s, request |-> requested + 1] :
              s \in {t \in Sensors : hasChart(t)}}
    /\ lastOp' = Op("updateAllCharts", "none", <<>>, "none", FALSE)
    /\ UNCHANGED <<mgrVars, orphaned, smVars>>
    /\ UNCHANGED <<toggleChecked, appPhase, toggleEvents, applied>>

(* A task that hands every batch, empty ones too, to updateChartData.      *)
measurementsArrive_PassesEmpty(req, measurements) ==
    LET updated == hasChart(req.sensorId)
        cs == IF updated
              THEN [charts EXCEPT ![req.sensorId] =
                       chartAfterUpdate(charts[req.sensorId], measurements,
                                        smoothingEnabled)]
              ELSE charts
    IN /\ req \in pending
       /\ pending' = pending \ {req}
       /\ originalData' = IF updated
                          THEN [originalData EXCEPT ![req.sensorId] =
                                   snapshotOf(measurements)]
                          ELSE originalData
       /\ applied' = IF updated
                     THEN [applied EXCEPT ![req.sensorId] = req.request]
                     ELSE applied
       /\ taskEnds(req, cs)
       /\ lastOp' = Op("measurementsArrive", req.sensorId, measurements, "none",
                       joinEnds(req))
       /\ UNCHANGED <<smoothingEnabled, orphaned, smVars>>
       /\ UNCHANGED <<toggleEvents, requested>>

(* A task that drops the response of a request older than the one whose    *)
(* batch is on the chart.                                                  *)
measurementsArrive_DropsStale(req, measurements) ==
    LET updated == measurements # <<>> /\ hasChart(req.sensorId)
                       /\ req.request >= applied[req.sensorId]
        cs == IF updated
              THEN [charts EXCEPT ![req.sensorId] =
                       chartAfterUpdate(charts[req.sensorId], measurements,
                                        smoothingEnabled)]
              ELSE charts
    IN /\ req \in pending
       /\ pending' = pending \ {req}
       /\ originalData' = IF updated
                          THEN [originalData EXCEPT ![req.sensorId] =
                                   snapshotOf(measurements)]
                          ELSE originalData
       /\ applied' = IF updated
                     THEN [applied EXCEPT ![req.sensorId] = req.request]
                     ELSE applied
       /\ taskEnds(req, cs)
       /\ lastOp' = Op("measurementsArrive", req.sensorId, measurements, "none",
                       joinEnds(req))
       /\ UNCHANGED <<smoothingEnabled, orphaned, smVars>>
       /\ UNCHANGED <<toggleEvents, requested>>

(* The awaited getMeasurements call of a task resolves: a non-empty batch  *)
(* is handed to updateChartData and the task ends.                         *)
measurementsArrive(req, measurements) ==
    LET updated == measurements # <<>> /\ hasChart(req.sensorId)
        cs == IF updated
              THEN [charts EXCEPT ![req.sensorId] =
                       chartAfterUpdate(charts[req.sensorId], measurements,
                                        smoothingEnabled)]
              ELSE charts
    IN /\ req \in pending
       /\ pending' = pending \ {req}
       /\ originalData' = IF updated
                          THEN [originalData EXCEPT ![req.sensorId] =
                                   snapshotOf(measurements)]
                          ELSE originalData
       /\ applied' = IF updated
                     THEN [applied EXCEPT ![req.sensorId] = req.request]
                     ELSE applied
       /\ taskEnds(req, cs)
       /\ lastOp' = Op("measurementsArrive", req.sensorId, measurements, "none",
                       joinEnds(req))
       /\ UNCHANGED <<smoothingEnabled, orphaned, smVars>>
       /\ UNCHANGED <<toggleEvents, requested>>

(* A failure that rejects the join of the call: the load ends in its       *)
(* error page without applying the saved toggle states.                    *)
measurementsFail_RejectsJoin(req) ==
    /\ req \in pending
    /\ pending' = pending \ {req}
    /\ appPhase' = IF req.request = LoadRequest THEN "failed" ELSE appPhase
    /\ lastOp' = Op("measurementsFail", req.sensorId, <<>>, "none", FALSE)
    /\ UNCHANGED <<mgrVars, orphaned, smVars>>
    /\ UNCHANGED <<toggleChecked, toggleEvents, requested, applied>>

(* A failure that rejects the tasks of the same updateAllCharts call too.  *)
measurementsFail_RejectsAll(req) ==
    /\ req \in pending
    /\ pending' = {p \in pending : p.request # req.request}
    /\ taskEnds(req, charts)
    /\ lastOp' = Op("measurementsFail", req.sensorId, <<>>, "none", joinEnds(req))
    /\ UNCHANGED <<originalData, smoothingEnabled, orphaned, smVars>>
    /\ UNCHANGED <<toggleEvents, requested, applied>>

(* The awaited getMeasurements call of a task rejects: the task's catch    *)
(* logs the error and the task ends.                                       *)
measurementsFail(req) ==
    /\ req \in pending
    /\ pending' = pending \ {req}
    /\ taskEnds(req, charts)
    /\ lastOp' = Op("measurementsFail", req.sensorId, <<>>, "none", joinEnds(req))
    /\ UNCHANGED <<originalData, smoothingEnabled, orphaned, smVars>>
    /\ UNCHANGED <<toggleEvents, requested, applied>>

----------------------------------------------------------------------------
(* Inputs.                                                                 *)

(* Readings of the i-th measurement of a batch, in hundredths.             *)
TempAt(i) == 2000 + 25 * i * i * i
HumAt(i) == 5000 - 175 * i
BatAt(i) == 300 - 25 * (i % 2)

Measurement(i, sec) ==
    [timestamp |-> IsoTime(sec), temperature |-> TempAt(i),
     humidity |-> HumAt(i), battery_voltage |-> BatAt(i)]

Reverse(s) == [i \in 1..Len(s) |-> s[Len(s) + 1 - i]]

(* A batch of n measurements: one a minute from 00:00:00 of day 0, the     *)
(* last one spanSec seconds after the first; delivered oldest first, or    *)
(* newest first when descending.                                           *)
Batch(n, spanSec, descending) ==
    LET asc == [i \in 1..n |->
                  Measurement(i, IF n > 1 /\ i = n THEN spanSec ELSE (i - 1) * 60)]
    IN IF descending THEN Reverse(asc) ELSE asc

(* Spans around the one-day boundary: 23h59m, 24h, 24h0m1s.                *)
Spans == {86340, 86400, 86401}

AxisBatches ==
    {Batch(n, span, d) : n \in 0..MaxBatchLen, span \in Spans, d \in BOOLEAN}

(* The two-sensor specification draws from an empty batch, one shorter     *)
(* than the smoothing window and two at least as long as it.               *)
MainBatches ==
    {Batch(n, 86400, FALSE) : n \in {0, 2, MaxBatchLen}}
        \cup {Batch(MaxBatchLen, 86340, TRUE)}

(* The metric whose switch is operated in the two-sensor specification.    *)
MainMetrics == {"humidity"}

----------------------------------------------------------------------------
(* The ChartManager under arbitrary calls, two sensors.                    *)

Init == InitManager /\ InitNoApp /\ InitIdleSmoother

Next ==
    \/ \E s \in Sensors : createChart(s)
    \/ \E s \in Sensors, b \in MainBatches : updateChartData(s, b)
    \/ \E m \in MainMetrics, v \in BOOLEAN : toggleDataset(m, v)
    \/ \E e \in BOOLEAN : toggleSmoothing(e)
    \/ \E s \in Sensors : destroyChart(s)
    \/ destroyAllCharts

Spec == Init /\ [][Next]_vars

----------------------------------------------------------------------------
(* One chart fed batches around the one-day boundary.                      *)

NextAxis ==
    \/ createChart("A")
    \/ \E b \in AxisBatches : updateChartData("A", b)
    \/ \E e \in BOOLEAN : toggleSmoothing(e)
    \/ destroyChart("A")

SpecAxis == Init /\ [][NextAxis]_vars

----------------------------------------------------------------------------
(* Two charts with the switches of all three metrics operated.             *)

NextVis ==
    \/ \E s \in Sensors : createChart(s)
    \/ \E m \in Metrics, v \in BOOLEAN : toggleDataset(m, v)
    \/ \E s \in Sensors : destroyChart(s)

SpecVis == Init /\ [][NextVis]_vars

----------------------------------------------------------------------------
(* The life cycle of two charts: creation, updates, resizing, destruction. *)

LifeBatches == {Batch(2, 86400, FALSE), Batch(MaxBatchLen, 86401, TRUE)}

NextLife ==
    \/ \E s \in Sensors : createChart(s)
    \/ \E s \in Sensors, b \in LifeBatches : updateChartData(s, b)
    \/ \E e \in BOOLEAN : toggleSmoothing(e)
    \/ \E s \in Sensors : destroyChart(s)
    \/ destroyAllCharts
    \/ \E s \in Sensors : resizeChart(s)
    \/ resizeAllCharts

SpecLife == Init /\ [][NextLife]_vars

----------------------------------------------------------------------------
(* Two charts with data, smoothing and one metric switch operated.         *)

NextMix ==
    \/ \E s \in Sensors : createChart(s)
    \/ \E s \in Sensors, b \in LifeBatches : updateChartData(s, b)
    \/ \E m \in MainMetrics, v \in BOOLEAN : toggleDataset(m, v)
    \/ \E e \in BOOLEAN : toggleSmoothing(e)
    \/ \E s \in Sensors : destroyChart(s)

SpecMix == Init /\ [][NextMix]_vars

----------------------------------------------------------------------------
(* The ChartManager over restarts of the page.                             *)

NextRestart ==
    \/ \E s \in Sensors : createChart(s)
    \/ \E s \in Sensors, b \in LifeBatches : updateChartData(s, b)
    \/ \E e \in BOOLEAN : toggleSmoothing(e)
    \/ restart

SpecRestart == Init /\ [][NextRestart]_vars

----------------------------------------------------------------------------
(* Two charts fed batches in every order of delivery.                      *)

(* Three measurements delivered neither oldest nor newest first.           *)
ShuffledBatch ==
    <<Measurement(1, 7200), Measurement(2, 0), Measurement(3, 3600)>>

(* Three measurements of which two carry the same timestamp.               *)
RepeatedBatch ==
    <<Measurement(1, 3600), Measurement(2, 0), Measurement(3, 3600)>>

OrderBatches ==
    {Batch(2, 86400, FALSE), Batch(MaxBatchLen, 86401, TRUE),
     ShuffledBatch, RepeatedBatch}

NextOrder ==
    \/ \E s \in Sensors : createChart(s)
    \/ \E s \in Sensors, b \in OrderBatches : updateChartData(s, b)
    \/ \E e \in BOOLEAN : toggleSmoothing(e)
    \/ \E s \in Sensors : destroyChart(s)

SpecOrder == Init /\ [][NextOrder]_vars

----------------------------------------------------------------------------
(* The page over its reloads: the initial load and the metric switches.    *)

(* The sensor lists getSensors returns.                                    *)
SensorLists == {{"A"}, {"A", "B"}}

AppBatches == {Batch(2, 86400, FALSE)}

(* The switches the user operates in the page specification.               *)
AppMetrics == {"temperature", "humidity"}

InitApp ==
    /\ InitManager
    /\ InitIdleSmoother
    /\ toggleChecked = [m \in Metrics |-> TRUE]
    /\ appPhase = "loading"
    /\ InitIdlePage

NextApp ==
    \/ pageLoad
    \/ \E sensors \in SensorLists : createSensorContainers(sensors)
    \/ loadDataFetch
    \/ \E s \in Sensors, b \in AppBatches :
          measurementsArrive([sensorId |-> s, request |-> LoadRequest], b)
    \/ \E s \in Sensors :
          measurementsFail([sensorId |-> s, request |-> LoadRequest])
    \/ \E m \in AppMetrics : toggleChange(m)

SpecApp == InitApp /\ [][NextApp]_vars

----------------------------------------------------------------------------
(* The page fetching measurements: requests in flight, answered in any     *)
(* order.                                                                  *)

(* What getMeasurements may resolve to.                                    *)
FetchBatches ==
    {Batch(0, 0, FALSE), Batch(2, 86400, FALSE), Batch(3, 3600, FALSE)}

Requests == [sensorId : Sensors, request : 1..MaxRequests]

NextFetch ==
    \/ \E sensors \in SensorLists : createSensorContainers(sensors)
    \/ updateAllCharts
    \/ \E req \in Requests, b \in FetchBatches : measurementsArrive(req, b)
    \/ \E req \in Requests : measurementsFail(req)

SpecFetch == InitApp /\ [][NextFetch]_vars

----------------------------------------------------------------------------
(* One load of the page up to the saved toggle states, with a change of    *)
(* the date range on the way.                                              *)

(* What getMeasurements resolves to when it finds measurements.            *)
LoadBatches == {Batch(2, 86400, FALSE), Batch(3, 3600, FALSE)}

LoadRequests == [sensorId : Sensors, request : {LoadRequest, 1}]

settle ==
    \/ \E req \in LoadRequests, b \in LoadBatches : measurementsArrive(req, b)
    \/ \E req \in LoadRequests : measurementsFail(req)

NextLoad ==
    \/ \E sensors \in SensorLists : createSensorContainers(sensors)
    \/ loadDataFetch
    \/ requested = 0 /\ updateAllCharts
    \/ \E req \in LoadRequests, b \in LoadBatches : measurementsArrive(req, b)
    \/ \E req \in LoadRequests : measurementsFail(req)

(* What an earlier page left in the storage: nothing, or the states of a   *)
(* page with sensor A on which the humidity switch was turned off.         *)
HumidityOff == [m \in Metrics |-> IF m = "humidity" THEN "false" ELSE "true"]

SavedStorages ==
    {[datasetStates |-> [s \in Sensors |-> [m \in Metrics |-> Unset]],
      toggleStates |-> [m \in Metrics |-> Unset],
      smoothingEnabled |-> Unset],
     [datasetStates |-> [s \in Sensors |->
                           IF s = "A" THEN HumidityOff ELSE [m \in Metrics |-> Unset]],
      toggleStates |-> HumidityOff,
      smoothingEnabled |-> Unset]}

InitLoad ==
    /\ charts = [s \in Sensors |-> NoChart]
    /\ originalData = [s \in Sensors |-> NoData]
    /\ smoothingEnabled = FALSE
    /\ localStorage \in SavedStorages
    /\ lastOp = Op("constructor", "none", <<>>, "none", FALSE)
    /\ orphaned = [s \in Sensors |-> FALSE]
    /\ InitIdleSmoother
    /\ toggleChecked = [m \in Metrics |-> TRUE]
    /\ appPhase = "loading"
    /\ toggleEvents =
          LET before == [m \in Metrics |->
                           IF m = "humidity" THEN localStorage.toggleStates[m]
                           ELSE Unset]
          IN [last |-> before, atLoad |-> before]
    /\ pending = {}
    /\ requested = 0
    /\ applied = [s \in Sensors |-> 0]

(* Every getMeasurements call settles: the client's timeout rejects one    *)
(* that gets no answer.                                                    *)
SpecLoad ==
    /\ InitLoad
    /\ [][NextLoad]_vars
    /\ WF_vars(settle)

----------------------------------------------------------------------------
(* The label callback applied to the ticks of a multi-day x scale.         *)

(* The scale puts its ticks on whole hours, one every stepSize hours (4    *)
(* as configured, 1 where the time.stepSize option is not honoured).  The  *)
(* first tick, in hours from value 0: around midnight, in the middle of a  *)
(* day, and on 31 January.                                                 *)
TickStarts == {0, 3, 13, 22, 11 * 24 + 9, 11 * 24 + 20, 11 * 24 + 23}
TickSteps == {1, 4}

TickInputs ==
    {[i \in 1..n |-> (start + (i - 1) * step) * MsPerHour] :
        n \in 1..MaxTicks, start \in TickStarts, step \in TickSteps}

InitTicks ==
    /\ InitManager
    /\ InitNoApp
    /\ smData = <<>>
    /\ smWindow = windowSize
    /\ smResult = <<>>
    /\ smAgain = <<>>
    /\ smPc = "idle"
    /\ tickValues \in TickInputs
    /\ tickLabels = <<>>

(* Chart.js calls the callback for every tick of the scale.                *)
LabelTicks ==
    /\ tickLabels = <<>>
    /\ tickLabels' = [i \in 1..Len(tickValues) |->
                        callback(tickValues[i], i - 1, tickValues)]
    /\ UNCHANGED <<tickValues, smData, smWindow, smResult, smAgain, smPc, lastOp>>
    /\ UNCHANGED <<mgrVars, orphaned, appVars>>

NextTicks == LabelTicks

SpecTicks == InitTicks /\ [][NextTicks]_vars

----------------------------------------------------------------------------
(* The smoother applied to arbitrary series.                               *)

SmoothValues == {-1025, 0, 2050}
SmoothSteps == {60000, 3600000}

(* The series of the documented example: values 10, 20, 30, 40, 50.        *)
ExampleSeries == [i \in 1..5 |-> [x |-> i * 60000, y |-> i * 1000]]

SeriesOver(ys, step) == [i \in 1..Len(ys) |-> [x |-> i * i * step, y |-> ys[i]]]

SmoothInputs ==
    {SeriesOver(ys, step) :
        ys \in UNION {[1..n -> SmoothValues] : n \in 0..MaxLen},
        step \in SmoothSteps}
    \cup {ExampleSeries}

InitSmoother ==
    /\ InitManager
    /\ InitNoApp
    /\ smData \in SmoothInputs
    /\ smWindow \in 1..MaxWindow
    /\ smResult = <<>>
    /\ smAgain = <<>>
    /\ smPc = "ready"
    /\ InitIdleTicks

Smooth ==
    /\ smPc = "ready"
    /\ smResult' = calculateMovingAverage(smData, smWindow)
    /\ smData' = dataAfterCall(smData, smWindow)
    /\ smPc' = "smoothed"
    /\ UNCHANGED <<smWindow, smAgain, lastOp, tickValues, tickLabels>>
    /\ UNCHANGED <<mgrVars, orphaned, appVars>>

Resmooth ==
    /\ smPc = "smoothed"
    /\ smAgain' = calculateMovingAverage(smResult, smWindow)
    /\ smPc' = "resmoothed"
    /\ UNCHANGED <<smData, smWindow, smResult, lastOp, tickValues, tickLabels>>
    /\ UNCHANGED <<mgrVars, orphaned, appVars>>

NextSmoother == Smooth \/ Resmooth

SpecSmoother == InitSmoother /\ [][NextSmoother]_vars

----------------------------------------------------------------------------
(* Properties.                                                             *)

Abs(a) == IF a >= 0 THEN a ELSE -a

(* r is sum / count rounded to the nearest hundredth.                      *)
IsRounded(r, sum, count) == 2 * Abs(r * count - sum) <= count

(* Sum of the y values of data at the 1-based positions lo..hi.            *)
RECURSIVE SumRange(_, _, _)
SumRange(data, lo, hi) ==
    IF lo > hi THEN 0 ELSE data[hi].y + SumRange(data, lo, hi - 1)

DisplayedDiffers(s) ==
    /\ hasChart(s) /\ hasData(s)
    /\ charts[s].data["temperature"] # originalData[s].temperature

(* C1: a toggleSmoothing call leaves the cached raw series of every sensor *)
(* exactly as they were, so they stay as the last updateChartData stored   *)
(* them through any sequence of toggles.                                   *)
C1_ToggleKeepsRaw ==
    [][lastOp'.op = "toggleSmoothing" => originalData' = originalData]_vars

C1_Witness ==
    /\ lastOp.op = "toggleSmoothing"
    /\ smoothingEnabled
    /\ \E s \in Sensors : DisplayedDiffers(s)

(* C2: every sensor with a chart and a cached snapshot displays, for each  *)
(* metric, the cached series smoothed with window 5 when smoothing is on   *)
(* and the cached series itself when it is off.                            *)
C2_DisplayedIsProjection ==
    \A s \in Sensors :
        hasChart(s) /\ hasData(s) =>
            /\ charts[s].data["temperature"]
                 = finalData(originalData[s].temperature, smoothingEnabled)
            /\ charts[s].data["humidity"]
                 = finalData(originalData[s].humidity, smoothingEnabled)
            /\ charts[s].data["battery"]
                 = finalData(originalData[s].battery, smoothingEnabled)

(* C3: for a series at least windowSize long, the output value at 0-based  *)
(* index i is the mean, rounded to a hundredth, of the inputs at indices   *)
(* [start, min(n, start + windowSize)), start = max(0, i - windowSize / 2  *)
(* rounded down); the example 10..50 with window 3 gives 30 at index 2, 20 *)
(* at index 0 and the two-point mean 45 at the right edge.                 *)
C3_WindowRule ==
    (smPc # "ready" /\ Len(smData) >= smWindow) =>
        /\ \A i \in 0..(Len(smData) - 1) :
             LET start == IF i - (smWindow \div 2) > 0 THEN i - (smWindow \div 2) ELSE 0
                 stop == IF start + smWindow < Len(smData)
                         THEN start + smWindow ELSE Len(smData)
             IN IsRounded(smResult[i + 1].y,
                          SumRange(smData, start + 1, stop), stop - start)
        /\ (smData = ExampleSeries /\ smWindow = 3) =>
             /\ smResult[3].y = 3000
             /\ smResult[1].y = 2000
             /\ smResult[5].y = 4500

C3_Witness ==
    /\ smPc = "smoothed"
    /\ smData = ExampleSeries
    /\ smWindow = 3
    /\ smResult[3].y = 3000
    /\ smResult[1].y = 2000

(* C4: a series shorter than windowSize, the empty one included, comes     *)
(* back equal to the input point for point.                                *)
C4_ShortIsNoOp ==
    (smPc # "ready" /\ Len(smData) < smWindow) => smResult = smData

C4_Witness ==
    /\ smPc = "smoothed"
    /\ Len(smData) >= 2
    /\ Len(smData) < smWindow
    /\ smData[1].y # smData[2].y
    /\ smResult = smData

(* C5: the smoothed output is as long as the input and carries the input's *)
(* timestamp at every index.                                               *)
C5_LengthAndTimes ==
    smPc # "ready" =>
        /\ Len(smResult) = Len(smData)
        /\ \A i \in 1..Len(smData) : smResult[i].x = smData[i].x

C5_Witness ==
    /\ smPc = "smoothed"
    /\ Len(smData) >= smWindow
    /\ smWindow > 1
    /\ smResult # smData
    /\ \A i \in 1..Len(smData) : smResult[i].x = smData[i].x

(* C6 as stated: smoothing an already smoothed series gives the same       *)
(* series, for every series and window.                                    *)
C6_Idempotent ==
    smPc = "resmoothed" => smAgain = smResult

(* C6 amended: smoothing again changes nothing when the series is shorter  *)
(* than windowSize or windowSize is 1; the documented example smoothed     *)
(* twice with window 3 differs from it smoothed once.                      *)
C6_IdempotentWhereNoOp ==
    smPc = "resmoothed" =>
        /\ (Len(smData) < smWindow \/ smWindow = 1) => smAgain = smResult
        /\ (smData = ExampleSeries /\ smWindow = 3) => smAgain # smResult

C6_Witness ==
    /\ smPc = "resmoothed"
    /\ smWindow = 1
    /\ Len(smData) >= 2
    /\ smData[1].y # smData[2].y
    /\ smAgain = smResult

(* C7: a call of the smoother leaves the series passed to it, sequence and *)
(* points, as it was, and changes nothing of the charts, the cache, the    *)
(* smoothing flag or the persisted storage.                                *)
C7_SmootherIsPure ==
    [][(smPc = "ready" /\ smPc' = "smoothed") =>
          /\ smData' = smData
          /\ UNCHANGED <<charts, originalData, smoothingEnabled, localStorage>>]_vars

C7_Witness ==
    /\ smPc = "smoothed"
    /\ Len(smData) >= smWindow
    /\ smResult # smData

UpdatedChart(s) ==
    /\ lastOp.op = "updateChartData"
    /\ lastOp.sensorId = s
    /\ hasChart(s)

DisplayedSpan(s) ==
    LET d == charts[s].data["temperature"]
    IN d[Len(d)].x - d[1].x

(* C8: after updateChartData with a non-empty batch the time axis is in    *)
(* multi-day mode (4-hour step, auto-skip off) iff the displayed           *)
(* temperature series spans at least 24 hours, and is otherwise the        *)
(* single-day plan (no fixed step, auto-skip on); 23h59m is single-day and *)
(* 24h0m1s is multi-day.                                                   *)
C8_AxisPlanBoundary ==
    \A s \in Sensors :
        (UpdatedChart(s) /\ Len(lastOp.measurements) > 0) =>
            LET x == charts[s].xAxis
                multi == x.mode = "multi-day" /\ x.stepSize = 4 /\ ~x.autoSkip
                single == x.mode = "single-day" /\ x.stepSize = 0 /\ x.autoSkip
            IN /\ multi <=> DisplayedSpan(s) >= 86400000
               /\ single <=> DisplayedSpan(s) < 86400000
               /\ DisplayedSpan(s) = 86340000 => single
               /\ DisplayedSpan(s) = 86401000 => multi

C8_Witness ==
    /\ UpdatedChart("A")
    /\ Len(lastOp.measurements) > 1
    /\ DisplayedSpan("A") = 86340000
    /\ charts["A"].xAxis = SingleDayXAxis

(* C9: after updateChartData with an empty batch on an existing chart the  *)
(* time axis has the single-day plan (auto-skip on, no fixed step),        *)
(* whatever plan it had before.                                            *)
C9_EmptyGivesSingleDay ==
    \A s \in Sensors :
        (UpdatedChart(s) /\ Len(lastOp.measurements) = 0) =>
            /\ charts[s].xAxis.autoSkip
            /\ charts[s].xAxis.stepSize = 0
            /\ charts[s].xAxis.mode # "multi-day"

(* C10: after updateChartData the point radius is 4 for a batch of exactly *)
(* one measurement and 0 for a batch of two or more, and the hit radius is *)
(* 8 in both cases.                                                        *)
C10_SinglePointEmphasis ==
    \A s \in Sensors :
        UpdatedChart(s) =>
            /\ Len(lastOp.measurements) = 1 => charts[s].point.radius = 4
            /\ Len(lastOp.measurements) >= 2 => charts[s].point.radius = 0
            /\ Len(lastOp.measurements) >= 1 => charts[s].point.hitRadius = 8

C10_Witness ==
    /\ UpdatedChart("A")
    /\ Len(lastOp.measurements) = 1
    /\ charts["A"].point.radius = 4
    /\ charts["A"].point.hitRadius = 8

----------------------------------------------------------------------------
(* Visibility of the metrics.                                              *)

(* C11: in every reachable state, for every chart and every metric, the    *)
(* metric's value axis is displayed if and only if its dataset is not      *)
(* hidden.                                                                 *)
C11_AxisIffVisible ==
    \A s \in Sensors, m \in Metrics :
        hasChart(s) => (charts[s].display[m] <=> ~charts[s].hidden[m])

C11_Witness ==
    /\ lastOp.op = "toggleDataset"
    /\ \E s \in Sensors, m \in Metrics :
          /\ hasChart(s)
          /\ charts[s].hidden[m] /\ ~charts[s].display[m]
          /\ \E n \in Metrics : ~charts[s].hidden[n] /\ charts[s].display[n]

(* C12: immediately after createChart(sensorId), every metric with a       *)
(* persisted per-sensor value v has its dataset-hidden flag equal to not v *)
(* and its axis-display flag equal to v; metrics with nothing persisted    *)
(* are visible.                                                            *)
C12_CreateAppliesPersisted ==
    lastOp.op = "createChart" =>
        \A m \in Metrics :
            LET v == localStorage.datasetStates[lastOp.sensorId][m]
                chart == charts[lastOp.sensorId]
            IN IF v = Unset
               THEN ~chart.hidden[m] /\ chart.display[m]
               ELSE /\ chart.hidden[m] = (v # "true")
                    /\ chart.display[m] = (v = "true")

(* The step just taken was the turn that ended the join of the load and    *)
(* ran loadSavedStates.                                                    *)
SavedStatesApplied ==
    /\ lastOp.op \in {"measurementsArrive", "measurementsFail"}
    /\ lastOp.flag

(* The visibility the stored values resolve to: the per-sensor value when  *)
(* one is stored, otherwise the global one, otherwise true.                *)
ResolvedVisible(storage, s, m) ==
    IF storage.datasetStates[s][m] # Unset
    THEN storage.datasetStates[s][m] = "true"
    ELSE IF storage.toggleStates[m] # Unset
         THEN storage.toggleStates[m] = "true"
         ELSE TRUE

(* C13: once the charts are created and loadSavedStates has run, each      *)
(* metric of each chart is visible as the values persisted before the load *)
(* resolve: the per-sensor value when one exists, otherwise the global     *)
(* one, otherwise true; the global value never overrides a per-sensor one. *)
C13_ResolutionOrder ==
    [][SavedStatesApplied' =>
          \A s \in Sensors, m \in Metrics :
              charts'[s].exists =>
                  (~charts'[s].hidden[m]) = ResolvedVisible(localStorage, s, m)]_vars

(* C23: when loadSavedStates has run after a restart, every chart shows    *)
(* each metric as the last toggle event before the restart set it, and     *)
(* visible when the metric was never toggled (for the metrics the user has *)
(* not set to another value since the restart).                            *)
C23_VisibilitySurvivesRestart ==
    SavedStatesApplied =>
        \A m \in Metrics :
            toggleEvents.last[m] = toggleEvents.atLoad[m] =>
                \A s \in Sensors :
                    hasChart(s) =>
                        (~charts[s].hidden[m]) = (toggleEvents.atLoad[m] # "false")

(* C14: calling toggleDataset(metric, v) twice in a row leaves the same    *)
(* hidden flags, axis-display flags and persisted visibility state as      *)
(* calling it once.                                                        *)
C14_ToggleIdempotent ==
    \A m \in Metrics, v \in BOOLEAN :
        LET once == chartsAfterToggle(charts, m, v)
            saved == statesAfterToggle(localStorage.datasetStates, charts, m, v)
        IN /\ chartsAfterToggle(once, m, v) = once
           /\ statesAfterToggle(saved, once, m, v) = saved

C14_Witness ==
    /\ lastOp.op = "toggleDataset"
    /\ ~lastOp.flag
    /\ \A s \in Sensors : hasChart(s) /\ charts[s].hidden[lastOp.type]
    /\ chartsAfterToggle(charts, lastOp.type, TRUE) # charts
    /\ chartsAfterToggle(charts, lastOp.type, FALSE) = charts

(* C15: after toggleDataset(metric, v) every registered chart has that     *)
(* metric's dataset-hidden flag equal to not v and its axis-display flag   *)
(* equal to v, and the persisted state of every registered sensor records  *)
(* v for that metric.                                                      *)
C15_ToggleReachesAll ==
    lastOp.op = "toggleDataset" =>
        \A s \in Sensors :
            hasChart(s) =>
                /\ charts[s].hidden[lastOp.type] = ~lastOp.flag
                /\ charts[s].display[lastOp.type] = lastOp.flag
                /\ localStorage.datasetStates[s][lastOp.type] = stored(lastOp.flag)

C15_Witness ==
    /\ lastOp.op = "toggleDataset"
    /\ lastOp.type = "battery"
    /\ ~lastOp.flag
    /\ \A s \in Sensors :
          /\ hasChart(s)
          /\ charts[s].hidden["battery"]
          /\ localStorage.datasetStates[s]["battery"] = "false"
          /\ localStorage.datasetStates[s]["humidity"] = "true"

----------------------------------------------------------------------------
(* Life cycle of a chart.                                                  *)

(* The three datasets of the chart of s are empty.                         *)
EmptyDatasets(s) ==
    \A m \in Metrics : charts[s].data[m] = <<>>

(* C16: createChart on an id that already has a chart fails with a         *)
(* DuplicateSensorError and leaves the existing chart, its displayed data  *)
(* and the cache unchanged.                                                *)
C16_DuplicateCreateFails ==
    [][(lastOp'.op = "createChart" /\ hasChart(lastOp'.sensorId)) =>
          /\ lastOp'.threw = "DuplicateSensorError"
          /\ charts' = charts
          /\ originalData' = originalData]_vars

(* C17: no sequence of createChart, destroyChart and destroyAllCharts      *)
(* calls leaves a chart that was created for an id alive but no longer     *)
(* reachable through the registry.                                         *)
C17_NoOrphanedChart ==
    \A s \in Sensors : ~orphaned[s]

(* The operations of C18 called on an id that has no chart.                *)
OnUnknownSensor ==
    /\ lastOp'.op \in {"updateChartData", "resizeChart", "destroyChart"}
    /\ ~hasChart(lastOp'.sensorId)

(* C18: updateChartData, resizeChart and destroyChart on an id that has    *)
(* no chart (never created, or destroyed and not re-created) fail with an  *)
(* UnknownSensorError rather than completing as a silent no-op.            *)
C18_UnknownSensorFails ==
    [][OnUnknownSensor => lastOp'.threw = "UnknownSensorError"]_vars

(* C19: destroyChart(sensorId) on an existing chart leaves neither the     *)
(* chart registry nor the cache with an entry for that id.                 *)
C19_DestroyRemovesBoth ==
    [][(lastOp'.op = "destroyChart" /\ hasChart(lastOp'.sensorId)) =>
          /\ ~charts'[lastOp'.sensorId].exists
          /\ ~originalData'[lastOp'.sensorId].cached]_vars

C19_Witness ==
    /\ lastOp.op = "destroyChart"
    /\ ~hasChart(lastOp.sensorId) /\ ~hasData(lastOp.sensorId)
    /\ \E s \in Sensors : hasChart(s) /\ hasData(s)

(* C20: destroyChart(id) evicts what was cached for the id and keeps the   *)
(* storage; until createChart(id) the id has neither chart nor snapshot;   *)
(* createChart(id) then gives three empty datasets, and toggleSmoothing    *)
(* and toggleDataset leave them empty.                                     *)
C20_RecreateStartsFresh ==
    [][\A s \in Sensors :
          LET fresh  == ~originalData[s].cached /\
                        (charts[s].exists => EmptyDatasets(s))
              fresh2 == ~originalData'[s].cached /\
                        (charts'[s].exists => \A m \in Metrics : charts'[s].data[m] = <<>>)
          IN /\ (lastOp'.op = "destroyChart" /\ lastOp'.sensorId = s /\ hasChart(s)) =>
                    /\ ~charts'[s].exists /\ fresh2
                    /\ localStorage' = localStorage
             /\ (fresh /\ lastOp'.op = "createChart" /\ lastOp'.sensorId = s) =>
                    charts'[s].exists /\ fresh2
             /\ (fresh /\ lastOp'.op \in {"toggleSmoothing", "toggleDataset"}) =>
                    fresh2 /\ (charts'[s].exists <=> charts[s].exists)
             /\ (fresh /\ ~charts[s].exists /\ lastOp'.op \in {"updateChartData", "destroyChart"}
                        /\ lastOp'.sensorId = s) =>
                    fresh2 /\ ~charts'[s].exists]_vars

C20_Witness ==
    /\ lastOp.op = "createChart"
    /\ lastOp.sensorId = "A"
    /\ ~orphaned["A"]
    /\ localStorage.datasetStates["A"]["humidity"] = "false"
    /\ hasChart("A") /\ ~hasData("A") /\ EmptyDatasets("A")
    /\ smoothingEnabled
    /\ hasChart("B") /\ hasData("B") /\ ~EmptyDatasets("B")

----------------------------------------------------------------------------
(* Frames of toggleSmoothing and of the resize operations.                 *)

(* C21: a toggleSmoothing call leaves every chart whose sensor has no      *)
(* cached snapshot as it was (datasets, axis configuration, visibility     *)
(* flags) and creates no cache entry for it.                               *)
C21_SmoothingSkipsUncached ==
    [][lastOp'.op = "toggleSmoothing" =>
          \A s \in Sensors :
              ~originalData[s].cached =>
                  /\ charts'[s] = charts[s]
                  /\ ~originalData'[s].cached]_vars

C21_Witness ==
    /\ lastOp.op = "toggleSmoothing"
    /\ lastOp.flag
    /\ hasChart("A") /\ ~hasData("A")
    /\ EmptyDatasets("A") /\ charts["A"].point = DefaultPoint
    /\ hasChart("B") /\ hasData("B") /\ DisplayedDiffers("B")

(* C22: a newly constructed ChartManager has the smoothing flag that was   *)
(* last persisted by toggleSmoothing, and false when nothing is persisted. *)
C22_SmoothingSurvivesRestart ==
    lastOp.op = "constructor" =>
        smoothingEnabled = (localStorage.smoothingEnabled = "true")

(* C30: resizeChart(id) and resizeAllCharts() leave the charts (datasets,  *)
(* hidden flags, axis plan, point radius), the cache, the smoothing flag   *)
(* and the persisted state unchanged, whether or not id has a chart.       *)
C30_ResizeChangesNothing ==
    [][lastOp'.op \in {"resizeChart", "resizeAllCharts"} => UNCHANGED mgrVars]_vars

C30_Witness ==
    /\ lastOp.op = "resizeChart"
    /\ hasChart(lastOp.sensorId)
    /\ hasData(lastOp.sensorId)
    /\ charts[lastOp.sensorId].point # DefaultPoint
    /\ \E s \in Sensors : ~hasChart(s)

----------------------------------------------------------------------------
(* Content and order of the series.                                        *)

(* The point a measurement contributes to the series of a metric.          *)
PointOf(measurement, metric) ==
    [x |-> fromISO(measurement.timestamp),
     y |-> IF metric = "battery" THEN measurement.battery_voltage
           ELSE measurement[metric]]

CountOf(series, p) == Cardinality({i \in 1..Len(series) : series[i] = p})

Ascending(series) ==
    \A i \in 1..(Len(series) - 1) : series[i].x <= series[i + 1].x

DistinctTimes(series) ==
    \A i, j \in 1..Len(series) : i # j => series[i].x # series[j].x

(* The cached and the displayed series of every sensor.                    *)
AllSeries ==
    {originalData[s][m] : s \in {t \in Sensors : hasData(t)}, m \in Metrics}
        \cup {charts[s].data[m] : s \in {t \in Sensors : hasChart(t)}, m \in Metrics}

(* C26: after updateChartData(id, batch) on an existing chart the cached   *)
(* snapshot of id holds, for each metric, exactly the points of batch in   *)
(* ascending order: as many as the batch has measurements, each as often   *)
(* as the batch holds it, and so no point of an earlier batch.             *)
C26_WholesaleReplacement ==
    (lastOp.op = "updateChartData" /\ hasChart(lastOp.sensorId)) =>
        /\ hasData(lastOp.sensorId)
        /\ \A m \in Metrics :
              LET cached == originalData[lastOp.sensorId][m]
                  batch == [i \in 1..Len(lastOp.measurements) |->
                              PointOf(lastOp.measurements[i], m)]
              IN /\ Len(cached) = Len(batch)
                 /\ \A i \in 1..Len(batch) :
                       CountOf(cached, batch[i]) = CountOf(batch, batch[i])
                 /\ Ascending(cached)

C26_Witness ==
    /\ lastOp.op = "updateChartData"
    /\ lastOp.sensorId = "A"
    /\ lastOp.measurements = ShuffledBatch
    /\ hasChart("A")
    /\ Len(originalData["A"].temperature) = 3
    /\ charts["A"].point # DefaultPoint
    /\ hasData("B") /\ Len(originalData["B"].temperature) = MaxBatchLen

(* C27: every cached series and every displayed series is in ascending     *)
(* order of timestamp, in every reachable state and for every order in     *)
(* which the measurements of a batch are delivered.                        *)
C27_SeriesAscending ==
    \A series \in AllSeries : Ascending(series)

C27_Witness ==
    /\ lastOp.op = "toggleSmoothing"
    /\ hasData("A") /\ Len(originalData["A"].temperature) = MaxBatchLen
    /\ DisplayedDiffers("A")
    /\ hasData("B") /\ Len(charts["B"].data["humidity"]) = 3
    /\ charts["B"].data["humidity"][1].y # HumAt(1)

(* C28: no two points of a cached or displayed series share a timestamp,   *)
(* for every batch updateChartData accepts.                                *)
C28_DistinctTimestamps ==
    \A series \in AllSeries : DistinctTimes(series)

(* C29: for every chart whose displayed temperature series is non-empty,   *)
(* the x axis is in multi-day mode iff the first and the last displayed    *)
(* temperature point are at least 24 hours apart.                          *)
C29_AxisPlanMatchesDisplayed ==
    \A s \in Sensors :
        (hasChart(s) /\ charts[s].data["temperature"] # <<>>) =>
            LET shown == charts[s].data["temperature"]
            IN (charts[s].xAxis = MultiDayXAxis) <=>
                   (shown[Len(shown)].x - shown[1].x >= MsPerDay)

----------------------------------------------------------------------------
(* Fetching measurements.                                                  *)

(* C24: when the fetch of one sensor fails, the manager's state is as      *)
(* before, nothing is thrown and the tasks of the other sensors stay in    *)
(* flight; when the fetch of a sensor succeeds with a non-empty batch, the *)
(* chart and the cache of that sensor hold the points of the batch and     *)
(* those of the other sensors are as before.                               *)
C24_IndependentFailure ==
    [][/\ lastOp'.op = "measurementsFail" =>
             /\ UNCHANGED mgrVars
             /\ lastOp'.threw = "none"
             /\ \A p \in pending : p.sensorId # lastOp'.sensorId => p \in pending'
       /\ (lastOp'.op = "measurementsArrive" /\ lastOp'.measurements # <<>>) =>
             \A s \in Sensors :
                 IF s = lastOp'.sensorId /\ charts[s].exists
                 THEN /\ originalData'[s].cached
                      /\ \A m \in Metrics :
                            /\ Len(originalData'[s][m]) = Len(lastOp'.measurements)
                            /\ \A i \in 1..Len(lastOp'.measurements) :
                                  CountOf(originalData'[s][m],
                                          PointOf(lastOp'.measurements[i], m)) >= 1
                            /\ charts'[s].data[m] = originalData'[s][m]
                 ELSE /\ charts'[s] = charts[s]
                      /\ originalData'[s] = originalData[s]]_vars

C24_Witness ==
    /\ lastOp.op = "measurementsFail"
    /\ lastOp.sensorId = "A"
    /\ hasChart("A") /\ ~hasData("A") /\ EmptyDatasets("A")
    /\ applied["A"] = 0
    /\ \A p \in pending : p.sensorId # "A"
    /\ hasChart("B") /\ hasData("B") /\ ~EmptyDatasets("B")
    /\ applied["B"] = 1
    /\ requested = 1

(* C25: for a single sensor the batches are applied in the order of their  *)
(* requests: once the batch of a request is on the chart, the batch of an  *)
(* earlier request is never applied.                                       *)
C25_AppliedInRequestOrder ==
    [][\A s \in Sensors : applied'[s] >= applied[s]]_vars

----------------------------------------------------------------------------
(* Frames and structure of the manager's state.                            *)

(* C34: the sensor ids with a cached snapshot are among those with a       *)
(* chart, in every state reachable by createChart, updateChartData,        *)
(* toggleSmoothing, toggleDataset, destroyChart and destroyAllCharts.      *)
C34_CacheOnlyForCharts ==
    \A s \in Sensors : hasData(s) => hasChart(s)

C34_Witness ==
    /\ lastOp.op = "destroyAllCharts"
    /\ \A s \in Sensors : ~hasChart(s) /\ ~hasData(s)
    /\ smoothingEnabled
    /\ localStorage.datasetStates["B"]["humidity"] = "false"

(* The series have the same length and the same timestamp at each index.   *)
Aligned(a, b) ==
    /\ Len(a) = Len(b)
    /\ \A i \in 1..Len(a) : a[i].x = b[i].x

(* C35: in every reachable state the temperature, humidity and battery     *)
(* series displayed by a chart have the same length and the same timestamp *)
(* at each index, and so have the three series of each cached snapshot.    *)
C35_DatasetsAligned ==
    \A s \in Sensors, m \in Metrics :
        /\ hasChart(s) => Aligned(charts[s].data["temperature"], charts[s].data[m])
        /\ hasData(s) => Aligned(originalData[s].temperature, originalData[s][m])

C35_Witness ==
    /\ lastOp.op = "updateChartData"
    /\ lastOp.measurements = RepeatedBatch
    /\ hasChart(lastOp.sensorId)
    /\ Len(charts[lastOp.sensorId].data["battery"]) = 3
    /\ \E s \in Sensors :
          /\ hasChart(s) /\ smoothingEnabled
          /\ Len(charts[s].data["battery"]) = MaxBatchLen
          /\ charts[s].data["battery"] # originalData[s].battery

(* C36: toggleDataset changes no displayed series, no cached snapshot, no  *)
(* axis plan and not the smoothing flag; updateChartData and               *)
(* toggleSmoothing change no dataset-hidden flag, no axis-display flag and *)
(* no persisted visibility state.                                          *)
C36_DataAndVisibilityIndependent ==
    [][/\ lastOp'.op = "toggleDataset" =>
             /\ \A s \in Sensors :
                   charts[s].exists =>
                       /\ charts'[s].data = charts[s].data
                       /\ charts'[s].xAxis = charts[s].xAxis
                       /\ charts'[s].point = charts[s].point
             /\ UNCHANGED <<originalData, smoothingEnabled>>
       /\ lastOp'.op \in {"updateChartData", "toggleSmoothing"} =>
             /\ \A s \in Sensors :
                   charts[s].exists =>
                       /\ charts'[s].hidden = charts[s].hidden
                       /\ charts'[s].display = charts[s].display
             /\ localStorage'.datasetStates = localStorage.datasetStates
             /\ localStorage'.toggleStates = localStorage.toggleStates]_vars

C36_Witness ==
    /\ lastOp.op = "toggleDataset"
    /\ ~lastOp.flag
    /\ hasChart("A") /\ charts["A"].hidden["humidity"]
    /\ charts["A"].data["humidity"] # <<>>
    /\ charts["A"].xAxis = MultiDayXAxis
    /\ DisplayedDiffers("A")

(* C37: updateChartData(A, batch) and destroyChart(A) leave the chart and  *)
(* the cached snapshot of every other sensor unchanged.                    *)
C37_SensorsIsolated ==
    [][lastOp'.op \in {"updateChartData", "destroyChart"} =>
          \A s \in Sensors :
              s # lastOp'.sensorId =>
                  /\ charts'[s] = charts[s]
                  /\ originalData'[s] = originalData[s]]_vars

C37_Witness ==
    /\ lastOp.op = "destroyChart"
    /\ lastOp.sensorId = "A"
    /\ ~hasChart("A")
    /\ hasChart("B") /\ hasData("B") /\ ~EmptyDatasets("B")
    /\ charts["B"].hidden["humidity"]

----------------------------------------------------------------------------
(* Responses of overlapping and of empty fetches.                          *)

(* C32: every non-empty response is applied when it resolves, whichever    *)
(* request is on the chart: the chart and the cache then hold its batch;   *)
(* and a step takes at most the settled request out of those in flight.   *)
C32_LastResolvedWins ==
    [][/\ (lastOp'.op = "measurementsArrive" /\ lastOp'.measurements # <<>>
            /\ charts[lastOp'.sensorId].exists) =>
             LET s == lastOp'.sensorId
             IN /\ applied'[s] \in {p.request : p \in {q \in pending \ pending' : q.sensorId = s}}
                /\ \A m \in Metrics :
                      /\ Len(originalData'[s][m]) = Len(lastOp'.measurements)
                      /\ \A i \in 1..Len(lastOp'.measurements) :
                            CountOf(originalData'[s][m],
                                    PointOf(lastOp'.measurements[i], m)) >= 1
                      /\ charts'[s].data[m] = originalData'[s][m]
       /\ Cardinality(pending \ pending') <=
             IF lastOp'.op \in {"measurementsArrive", "measurementsFail"} THEN 1 ELSE 0]_vars

C32_Witness ==
    /\ lastOp.op = "measurementsArrive"
    /\ lastOp.sensorId = "A"
    /\ lastOp.measurements # <<>>
    /\ applied["A"] = 1
    /\ [sensorId |-> "A", request |-> 2] \in pending
    /\ Len(originalData["A"].temperature) = Len(lastOp.measurements)

(* C38: when a fetch resolves with an empty batch, the charts and the      *)
(* cache are as before: the sensor keeps the displayed series, axis plan,  *)
(* point radius and snapshot of the batch applied before.                  *)
C38_EmptyResultIgnored ==
    [][(lastOp'.op = "measurementsArrive" /\ lastOp'.measurements = <<>>) =>
          UNCHANGED <<mgrVars, applied>>]_vars

C38_Witness ==
    /\ lastOp.op = "measurementsArrive"
    /\ lastOp.measurements = <<>>
    /\ hasChart(lastOp.sensorId) /\ hasData(lastOp.sensorId)
    /\ ~EmptyDatasets(lastOp.sensorId)
    /\ charts[lastOp.sensorId].xAxis = MultiDayXAxis
    /\ applied[lastOp.sensorId] = 1
    /\ requested = 2

----------------------------------------------------------------------------
(* Labels of the multi-day x scale.                                        *)

(* The calendar day of a Date value, counted from day 0.                   *)
CalendarDay(value) == value \div MsPerDay

(* C31: in multi-day mode a tick gets a two-line label (its time and its   *)
(* date) when it is the first tick or its calendar day differs from the    *)
(* previous tick's; otherwise its time alone when its hour is a multiple   *)
(* of 4; otherwise no label.                                               *)
C31_MultiDayLabels ==
    tickLabels # <<>> =>
        /\ Len(tickLabels) = Len(tickValues)
        /\ \A i \in 1..Len(tickValues) :
              LET t == tickValues[i]
                  time == <<(t \div MsPerHour) % 24, (t \div 60000) % 60>>
                  label == tickLabels[i]
              IN IF i = 1 \/ CalendarDay(t) # CalendarDay(tickValues[i - 1])
                 THEN label.time = time /\ label.date # <<>>
                 ELSE IF time[1] % 4 = 0
                      THEN label.time = time /\ label.date = <<>>
                      ELSE label = NoLabel

C31_Witness ==
    /\ Len(tickLabels) = MaxTicks
    /\ tickLabels[1].date = <<1, 31>>
    /\ \E i \in 2..MaxTicks : tickLabels[i].date = <<2, 1>>
    /\ \E i \in 2..MaxTicks : tickLabels[i] = NoLabel
    /\ \E i \in 2..MaxTicks : tickLabels[i].time # <<>> /\ tickLabels[i].date = <<>>

----------------------------------------------------------------------------
(* The join of the per-sensor tasks.                                       *)

(* Every chart shows each metric as the saved toggle states have it and    *)
(* the switches stand likewise.                                            *)
ShowsSavedStates ==
    \A m \in Metrics :
        /\ toggleChecked[m] = (localStorage.toggleStates[m] # "false")
        /\ \A s \in Sensors :
              hasChart(s) =>
                  /\ charts[s].hidden[m] = ~toggleChecked[m]
                  /\ localStorage.datasetStates[s][m] = stored(toggleChecked[m])

(* C33: the join of the per-sensor tasks tolerates failures and ends.  A   *)
(* failing fetch ends its own task only: the cache stays, no other request *)
(* leaves the pending ones, and unless it was the last task of the load    *)
(* the phase, the charts and the storage stay too.  Whichever way the last *)
(* task of the load ends, by a response or by a failure, the join ends     *)
(* with it and the saved toggle states are applied in that very step,      *)
(* after the task's update; the load is loaded in no other way, and stays  *)
(* loaded, so they are applied once.  A load that is fetching always       *)
(* reaches the loaded phase.                                               *)
C33_JoinToleratesFailure ==
    /\ [][/\ lastOp'.op = "measurementsFail" =>
              /\ \E req \in pending : pending' = pending \ {req}
              /\ originalData' = originalData
              /\ ~SavedStatesApplied' => (appPhase' = appPhase /\ mgrVars' = mgrVars)
          /\ (appPhase = "fetching" /\ loadPending' = {}) =>
              /\ SavedStatesApplied'
              /\ appPhase' = "loaded"
              /\ ShowsSavedStates'
          /\ (appPhase # "loaded" /\ appPhase' = "loaded") =>
              /\ appPhase = "fetching"
              /\ loadPending # {} /\ loadPending' = {}
              /\ SavedStatesApplied'
          /\ SavedStatesApplied' => (appPhase = "fetching" /\ appPhase' = "loaded")
          /\ appPhase = "loaded" => (appPhase' = "loaded" /\ loadPending' = {})
          /\ appPhase' \in {"loading", "containers", "fetching", "loaded"}]_vars
    /\ (appPhase = "fetching") ~> (appPhase = "loaded")

(* The join of a load of two sensors has just ended with the failure of    *)
(* B's fetch, after A's had resolved: the saved states, humidity off, are  *)
(* on both charts, and a later request for B is still in flight.           *)
C33_Witness ==
    /\ appPhase = "loaded"
    /\ SavedStatesApplied
    /\ lastOp.op = "measurementsFail" /\ lastOp.sensorId = "B"
    /\ hasChart("A") /\ hasChart("B")
    /\ originalData["A"] # NoData
    /\ originalData["B"] = NoData
    /\ charts["A"].hidden["humidity"] /\ charts["B"].hidden["humidity"]
    /\ ~toggleChecked["humidity"]
    /\ [sensorId |-> "B", request |-> 1] \in pending

====
